---- MODULE Spec2Model ----
(***************************************************************************)
(* Model of VEGomukuAgent (src/ve_gomoku_agent.py): the board analyzer     *)
(* (five-in-a-row oracle, one-ply blunder oracle, threat scan), the move   *)
(* selector (_pick_best, _get_strategic_move) and the turn handler         *)
(* get_move with its host calls, its one awaited model call and its        *)
(* emergency fallback.                                                     *)
(*                                                                         *)
(* A board is a list of 8 rows of 8 cells holding ".", "X" or "O", as in   *)
(* the source; a cell is <<r, c>> counted from 0.  Every analyzer routine  *)
(* that edits the board in place is modelled as an operator returning      *)
(* [ret, board]: the value returned and the board the caller is left with. *)
(***************************************************************************)
EXTENDS Integers, Sequences, FiniteSets, TLC

VARIABLES board, me, legal, fmt, pc, call, ret, threats, parsed, llmCalls, result, sel

vars == <<board, me, legal, fmt, pc, call, ret, threats, parsed, llmCalls, result, sel>>

\* ------------------------------------------------------------------ bounds

\* Largest number of stones on the host position.
MaxStones == 4

\* ---------------------------------------------------------------- constants

\* Board side: range(8) and 0 <= rr < 8 everywhere in the source.
N == 8

\* Five in a row wins: cnt >= 5, and the 5-cell window of the threat scan.
WinLen == 5

Stones == {".", "X", "O"}

Players == {"X", "O"}

Cells == (0..(N - 1)) \X (0..(N - 1))

\* The four scan directions, in the order of the source's lists.
Dirs == << <<0, 1>>, <<1, 0>>, <<1, 1>>, <<1, -1>> >>

InBoard(r, c) == r >= 0 /\ r < N /\ c >= 0 /\ c < N

\* board[r][c]
At(b, r, c) == b[r + 1][c + 1]

\* board[r][c] = v
Put(b, r, c, v) == [b EXCEPT ![r + 1][c + 1] = v]

\* 'O' if player == 'X' else 'X'
Other(player) == IF player = "X" THEN "O" ELSE "X"

\* Cells in the order of "for r in range(8): for c in range(8)".
RowMajor == [i \in 1..(N * N) |-> <<(i - 1) \div N, (i - 1) % N>>]

\* The empty 8x8 board: ['.'] * 8 in every row.
EmptyBoard == [r \in 1..N |-> [c \in 1..N |-> "."]]

\* ------------------------------------------------- five-in-a-row oracle

\* One while loop of _five_in_row_if_place / _score_move: the number of
\* consecutive cells holding player from (rr, cc) on in steps of (dr, dc),
\* stopping at the board's edge.
RECURSIVE CountRun(_, _, _, _, _, _)
CountRun(b, rr, cc, dr, dc, player) ==
    IF InBoard(rr, cc) /\ At(b, rr, cc) = player
    THEN 1 + CountRun(b, rr + dr, cc + dc, dr, dc, player)
    ELSE 0

\* cnt of one direction: the placed stone, the run ahead and the run behind.
LineCount(b, r, c, d, player) ==
    1 + CountRun(b, r + d[1], c + d[2], d[1], d[2], player)
      + CountRun(b, r - d[1], c - d[2], -d[1], -d[2], player)

\* _five_in_row_if_place: an occupied cell returns False untouched; otherwise
\* the stone is placed, the four directions are counted (the break only cuts
\* the loop short), and the cell is set back to '.' before the return.
five_in_row_if_place(b, r, c, player) ==
    IF At(b, r, c) # "."
    THEN [ret |-> FALSE, board |-> b]
    ELSE LET b1 == Put(b, r, c, player)
             won == \E i \in 1..4 : LineCount(b1, r, c, Dirs[i], player) >= WinLen
         IN  [ret |-> won, board |-> Put(b1, r, c, ".")]

\* ----------------------------------------------------- one-ply blunder oracle

\* The states of the double loop of _move_gives_opp_immediate_win: the board
\* in hand, the move under test, the opponent's stone, the row and the column
\* the loops stand at.
ScanArgs == [b : Seq(Seq(Stones)), m : Cells, opp : Players, rr : 0..N, cc : 0..N]

\* "for cc in range(8)" of row a.rr from column a.cc on, on the board a.b that
\* holds my stone at a.m: the first empty cell that wins for opp sets a.m back
\* to '.' and returns True; ret is FALSE when the row ends without a return.
\* The board is handed through every call of the five-in-a-row oracle.
InnerScan[a \in ScanArgs] ==
    IF a.cc >= N
    THEN [ret |-> FALSE, board |-> a.b]
    ELSE IF At(a.b, a.rr, a.cc) = "."
    THEN LET w == five_in_row_if_place(a.b, a.rr, a.cc, a.opp)
         IN  IF w.ret
             THEN [ret |-> TRUE, board |-> Put(w.board, a.m[1], a.m[2], ".")]
             ELSE InnerScan[[a EXCEPT !.b = w.board, !.cc = a.cc + 1]]
    ELSE InnerScan[[a EXCEPT !.cc = a.cc + 1]]

\* "for rr in range(8)" from row a.rr on; the end of the loops sets a.m back
\* to '.' and returns False.
OppScan[a \in ScanArgs] ==
    IF a.rr >= N
    THEN [ret |-> FALSE, board |-> Put(a.b, a.m[1], a.m[2], ".")]
    ELSE LET row == InnerScan[[a EXCEPT !.cc = 0]]
         IN  IF row.ret
             THEN row
             ELSE OppScan[[a EXCEPT !.b = row.board, !.rr = a.rr + 1]]

\* The inner loop with the early return leaving my stone on the board.
InnerScanNoRestore[a \in ScanArgs] ==
    IF a.cc >= N
    THEN [ret |-> FALSE, board |-> a.b]
    ELSE IF At(a.b, a.rr, a.cc) = "."
    THEN LET w == five_in_row_if_place(a.b, a.rr, a.cc, a.opp)
         IN  IF w.ret
             THEN [ret |-> TRUE, board |-> w.board]
             ELSE InnerScanNoRestore[[a EXCEPT !.b = w.board, !.cc = a.cc + 1]]
    ELSE InnerScanNoRestore[[a EXCEPT !.cc = a.cc + 1]]

OppScanNoRestore[a \in ScanArgs] ==
    IF a.rr >= N
    THEN [ret |-> FALSE, board |-> Put(a.b, a.m[1], a.m[2], ".")]
    ELSE LET row == InnerScanNoRestore[[a EXCEPT !.cc = 0]]
         IN  IF row.ret
             THEN row
             ELSE OppScanNoRestore[[a EXCEPT !.b = row.board, !.rr = a.rr + 1]]

\* A slip: the early return forgets board[r][c] = '.'.
move_gives_opp_immediate_win_norestore(b, move, mine, opp) ==
    IF At(b, move[1], move[2]) # "."
    THEN [ret |-> TRUE, board |-> b]
    ELSE OppScanNoRestore[[b |-> Put(b, move[1], move[2], mine), m |-> move,
                           opp |-> opp, rr |-> 0, cc |-> 0]]

\* A slip: the hypothetical stone placed is the opponent's.
move_gives_opp_immediate_win_oppstone(b, move, mine, opp) ==
    IF At(b, move[1], move[2]) # "."
    THEN [ret |-> TRUE, board |-> b]
    ELSE OppScan[[b |-> Put(b, move[1], move[2], opp), m |-> move, opp |-> opp,
                  rr |-> 0, cc |-> 0]]

\* _move_gives_opp_immediate_win: an occupied cell is a blunder; otherwise my
\* stone is placed and the whole board is scanned for a winning reply.
move_gives_opp_immediate_win(b, move, mine, opp) ==
    IF At(b, move[1], move[2]) # "."
    THEN [ret |-> TRUE, board |-> b]
    ELSE OppScan[[b |-> Put(b, move[1], move[2], mine), m |-> move, opp |-> opp,
                  rr |-> 0, cc |-> 0]]

\* -------------------------------------------------------------- threat scan

\* First while loop of _check_line_for_threat: walk back to the line's start.
RECURSIVE LineStart(_, _, _, _)
LineStart(r, c, dr, dc) ==
    IF InBoard(r - dr, c - dc) THEN LineStart(r - dr, c - dc, dr, dc) ELSE <<r, c>>

\* Second while loop: the cells of the line from its start to the far edge.
RECURSIVE LineFrom(_, _, _, _)
LineFrom(r, c, dr, dc) ==
    IF InBoard(r, c) THEN <<<<r, c>>>> \o LineFrom(r + dr, c + dc, dr, dc) ELSE <<>>

\* The two loops for every cell and direction, cell number (r * 8 + c) and
\* direction number k of Dirs: line depends on nothing else.
LineTable ==
    [j \in 1..(N * N * 4) |->
        LET cell == RowMajor[((j - 1) \div 4) + 1]
            d == Dirs[((j - 1) % 4) + 1]
            s == LineStart(cell[1], cell[2], d[1], d[2])
        IN  LineFrom(s[1], s[2], d[1], d[2])]

DirNumber(dr, dc) == CHOOSE k \in 1..4 : Dirs[k] = <<dr, dc>>

LineOf(r, c, dr, dc) == LineTable[(r * N + c) * 4 + DirNumber(dr, dc)]

\* pieces.count(v) over a window of cells.
CountIn(b, window, v) ==
    Cardinality({k \in 1..Len(window) : At(b, window[k][1], window[k][2]) = v})

\* window[pieces.index('.')]: the first empty cell of the window.
FirstEmpty(b, window) ==
    window[CHOOSE k \in 1..Len(window) :
              /\ At(b, window[k][1], window[k][2]) = "."
              /\ \A j \in 1..(k - 1) : At(b, window[j][1], window[j][2]) # "."]

\* What one 5-cell window adds to threat_positions.
Window5(b, window, player, target_count) ==
    LET p == CountIn(b, window, player)
        e == CountIn(b, window, ".")
        o == CountIn(b, window, Other(player))
        pieces == [k \in 1..5 |-> At(b, window[k][1], window[k][2])]
    IN  IF target_count = 4 /\ p = 4 /\ e = 1 /\ o = 0
        THEN {FirstEmpty(b, window)}
        ELSE IF target_count = 3 /\ p = 3 /\ e = 2 /\ o = 0
        THEN IF pieces = <<".", player, player, player, ".">>
             THEN {window[1], window[5]}
             ELSE {window[k] : k \in {j \in 1..5 : pieces[j] = "."}}
        ELSE IF target_count = 3 /\ p = 3 /\ e = 1 /\ o = 1
        THEN {FirstEmpty(b, window)}
        ELSE {}

\* What one 4-cell window of the edge scan adds (target_count == 3 only).
Window4(b, window, player) ==
    LET p == CountIn(b, window, player)
        e == CountIn(b, window, ".")
        o == CountIn(b, window, Other(player))
    IN  IF p = 3 /\ e = 1 /\ o = 0
        THEN (IF At(b, window[1][1], window[1][2]) = "." THEN {window[1]} ELSE {})
             \cup (IF At(b, window[4][1], window[4][2]) = "." THEN {window[4]} ELSE {})
        ELSE {}

\* A slip of the window range: range(0, len(line) - 5) drops the last window.
check_line_for_threat_short(b, start_r, start_c, dr, dc, player, target_count) ==
    LET line == LineOf(start_r, start_c, dr, dc)
        n == Len(line)
        five == UNION {Window5(b, SubSeq(line, i + 1, i + 5), player, target_count) :
                         i \in 0..(n - 6)}
        four == IF target_count = 3 /\ n >= 4
                THEN UNION {Window4(b, SubSeq(line, i + 1, i + 4), player) :
                              i \in 0..(n - 4)}
                ELSE {}
    IN  five \cup four

\* _check_line_for_threat: the full board line through (start_r, start_c) in
\* direction (dr, dc), every 5-cell window i in range(0, max(0, len - 4)),
\* and for target_count == 3 every 4-cell window i in range(0, len - 3).
\* The list it returns is only ever added to a set, so it is given as a set.
check_line_for_threat(b, start_r, start_c, dr, dc, player, target_count) ==
    LET line == LineOf(start_r, start_c, dr, dc)
        n == Len(line)
        five == UNION {Window5(b, SubSeq(line, i + 1, i + 5), player, target_count) :
                         i \in 0..(n - 5)}
        four == IF target_count = 3 /\ n >= 4
                THEN UNION {Window4(b, SubSeq(line, i + 1, i + 4), player) :
                              i \in 0..(n - 4)}
                ELSE {}
    IN  five \cup four

\* _find_all_threats: the union over every cell and every direction.
find_all_threats(b, player, target_count) ==
    UNION {check_line_for_threat(b, cell[1], cell[2], Dirs[k][1], Dirs[k][2],
                                 player, target_count) :
             cell \in Cells, k \in 1..4}

\* The comprehension of _analyze_board_for_llm (my_wins, opp_wins): every
\* empty cell at which the five-in-a-row oracle answers True.
ImmediateWins(b, player) ==
    {cell \in Cells : /\ At(b, cell[1], cell[2]) = "."
                      /\ five_in_row_if_place(b, cell[1], cell[2], player).ret}

\* ------------------------------------------------------------ move ranking

\* max over a non-empty set of integers.
MaxOf(S) == CHOOSE x \in S : \A y \in S : y <= x

\* _score_move: -1 on an occupied cell; otherwise best * 10 + forks, best the
\* longest line through the placed stone and forks the directions with a
\* line of three or more.  The cell is set back, so only the score is given.
score_move(b, r, c, mine) ==
    IF At(b, r, c) # "."
    THEN -1
    ELSE LET b1 == Put(b, r, c, mine)
             cnt == [k \in 1..4 |-> LineCount(b1, r, c, Dirs[k], mine)]
             best == MaxOf({0} \cup {cnt[k] : k \in 1..4})
             forks == Cardinality({k \in 1..4 : cnt[k] >= 3})
         IN  best * 10 + forks

Abs(x) == IF x < 0 THEN -x ELSE x

\* _center_dist, doubled to stay in the integers:
\* 2 * (abs(r - 3.5) + abs(c - 3.5)) = abs(2r - 7) + abs(2c - 7).
center_dist(pos) == Abs(2 * pos[1] - 7) + Abs(2 * pos[2] - 7)

\* The key (-score, center_dist) of the min() calls.
RankKey(b, p, mine) == <<0 - score_move(b, p[1], p[2], mine), center_dist(p)>>

\* Python's tuple comparison k1 < k2.
KeyLess(k1, k2) == k1[1] < k2[1] \/ (k1[1] = k2[1] /\ k1[2] < k2[2])

\* min(pool, key = (-score, center_dist)) over a list: the first element, in
\* list order, that no other element beats.
MinByRank(pool, b, mine) ==
    LET key == [k \in 1..Len(pool) |-> RankKey(b, pool[k], mine)]
        best == CHOOSE k \in 1..Len(pool) :
                    /\ \A j \in 1..Len(pool) : ~KeyLess(key[j], key[k])
                    /\ \A j \in 1..(k - 1) : KeyLess(key[k], key[j])
    IN  pool[best]

\* min(pool, key = center_dist) over a list: the first nearest element.
MinByCenter(pool) ==
    LET key == [k \in 1..Len(pool) |-> center_dist(pool[k])]
        best == CHOOSE k \in 1..Len(pool) :
                    /\ \A j \in 1..Len(pool) : key[j] >= key[k]
                    /\ \A j \in 1..(k - 1) : key[j] > key[k]
    IN  pool[best]

Range(s) == {s[k] : k \in 1..Len(s)}

\* The return value of the blunder oracle.
IsBlunder(b, m, mine, opp) == move_gives_opp_immediate_win(b, m, mine, opp).ret

\* [m for m in lst if not self._move_gives_opp_immediate_win(board, m, me, opp)]
SafeOf(lst, b, mine, opp) == SelectSeq(lst, LAMBDA m : ~IsBlunder(b, m, mine, opp))

\* The best-ranked moves of a set: what min() can return, whatever the order.
BestRanked(pool, b, mine) ==
    LET key == [m \in pool |-> RankKey(b, m, mine)]
    IN  {m \in pool : \A x \in pool : ~KeyLess(key[x], key[m])}

\* The stage as the spec words it: no safe candidate, no move.
pick_best_fallthrough(candidates, lgl, b, mine, opp, avoid_blunders) ==
    LET moves == candidates \cap Range(lgl)
        safe == {m \in moves : ~IsBlunder(b, m, mine, opp)}
    IN  BestRanked(IF avoid_blunders THEN safe ELSE moves, b, mine)

\* _pick_best.  The candidates of the threat stages come from list(set(...)),
\* whose order the source does not fix, so the operator gives the set of
\* moves min() can return: the best-ranked ones.  {} stands for None.
pick_best(candidates, lgl, b, mine, opp, avoid_blunders) ==
    LET moves == candidates \cap Range(lgl)
        safe == IF avoid_blunders
                THEN {m \in moves : ~IsBlunder(b, m, mine, opp)}
                ELSE {}
    IN  BestRanked(IF safe # {} THEN safe ELSE moves, b, mine)

\* sum(row.count('X') + row.count('O') for row in board)
MoveCount(b) == Cardinality({cell \in Cells : At(b, cell[1], cell[2]) # "."})

\* The candidates of stage k of _get_strategic_move, before _pick_best.
StageCandidates(k, b, mine, opp, lgl) ==
    CASE k = 1 -> {m \in Range(lgl) : five_in_row_if_place(b, m[1], m[2], mine).ret}
      [] k = 2 -> find_all_threats(b, opp, 4)
      [] k = 3 -> find_all_threats(b, opp, 3)
      [] k = 4 -> find_all_threats(b, mine, 3)

\* Stages 5 and 6 of _get_strategic_move: the opening ring (center distance
\* <= 3, here doubled), then every legal move; min() of an empty pool raises
\* ValueError.
StrategicTail(b, mine, opp, lgl) ==
    LET ring == SelectSeq(lgl, LAMBDA m : center_dist(m) <= 6)
        ring_safe == SafeOf(ring, b, mine, opp)
        pool5 == IF ring_safe # <<>> THEN ring_safe ELSE ring
        safe_all == SafeOf(lgl, b, mine, opp)
        pool6 == IF safe_all # <<>> THEN safe_all ELSE lgl
    IN  IF MoveCount(b) < 10 /\ pool5 # <<>>
        THEN [raised |-> FALSE, stage |-> 5, moves |-> {MinByRank(pool5, b, mine)}]
        ELSE IF pool6 = <<>>
        THEN [raised |-> TRUE, stage |-> 6, moves |-> {}]
        ELSE [raised |-> FALSE, stage |-> 6, moves |-> {MinByRank(pool6, b, mine)}]

\* Stages k..4 of _get_strategic_move, then the tail.  Stage 1 ranks
\* win_moves, a list in the order of legal, so its min() is the first
\* best-ranked move of legal; stages 2 to 4 rank a list made from a set.
RECURSIVE StrategicFrom(_, _, _, _, _)
StrategicFrom(k, b, mine, opp, lgl) ==
    IF k > 4
    THEN StrategicTail(b, mine, opp, lgl)
    ELSE LET best == pick_best(StageCandidates(k, b, mine, opp, lgl), lgl, b, mine, opp, k # 1)
         IN  IF best # {}
             THEN [raised |-> FALSE, stage |-> k,
                   moves |-> IF k = 1
                             THEN {MinByRank(SelectSeq(lgl, LAMBDA m : m \in best), b, mine)}
                             ELSE best]
             ELSE StrategicFrom(k + 1, b, mine, opp, lgl)

\* _get_strategic_move: the stage that returned, the moves it can return,
\* and whether it raised instead.
get_strategic_move(b, mine, opp, lgl) == StrategicFrom(1, b, mine, opp, lgl)

\* ------------------------------------------------------------------ get_move

\* game_state.format_board(formatter="standard") as the list of its lines,
\* each a list of characters: a row label, then the eight cells with a blank
\* before each.  The "ragged" shape loses the last cell of the first row,
\* the "narrow" shape the last cell of every row.
FormatBoard(b, shape) ==
    [r \in 1..N |->
        LET cols == IF shape = "narrow" \/ (shape = "ragged" /\ r = 1) THEN N - 1 ELSE N
        IN  <<"#">> \o [k \in 1..(2 * cols) |->
                          IF k % 2 = 1 THEN " " ELSE b[r][k \div 2]]]

\* _parse_board_from_string: the 'X', 'O', '.' characters of every line, the
\* lines with exactly 8 of them kept, rows of '.' appended up to 8, rows[:8].
parse_board_from_string(lines) ==
    LET tokens(line) == SelectSeq(line, LAMBDA ch : ch \in Stones)
        kept == SelectSeq([k \in 1..Len(lines) |-> tokens(lines[k])],
                          LAMBDA row : Len(row) = N)
        blank == [k \in 1..N |-> "."]
    IN  [k \in 1..N |-> IF k <= Len(kept) THEN kept[k] ELSE blank]

NoMove == <<-1, -1>>

\* A slip: the legality test "(r, c) in legal" left out.
get_move_reply_nolegal(reply, lgl, b, mine, opp) ==
    IF reply.kind # "move"
    THEN [ret |-> FALSE, move |-> NoMove]
    ELSE LET m == <<reply.row, reply.col>>
         IN  IF m \in Cells => ~IsBlunder(b, m, mine, opp)
             THEN [ret |-> TRUE, move |-> m]
             ELSE [ret |-> FALSE, move |-> NoMove]

\* A slip: the blunder test on the model's move left out.
get_move_reply_noveto(reply, lgl, b, mine, opp) ==
    IF reply.kind # "move"
    THEN [ret |-> FALSE, move |-> NoMove]
    ELSE LET m == <<reply.row, reply.col>>
         IN  IF m \in Range(lgl)
             THEN [ret |-> TRUE, move |-> m]
             ELSE [ret |-> FALSE, move |-> NoMove]

\* Lines 353-366 of get_move, after the awaited reply.  A reply without a
\* JSON object skips the block; llm.complete, json.loads, data["row"] and
\* int() raise into the except clause; a parsed (r, c) is returned only when
\* it is in legal and not a blunder.  Every other path leaves the try block
\* with nothing returned.
get_move_reply(reply, lgl, b, mine, opp) ==
    IF reply.kind # "move"
    THEN [ret |-> FALSE, move |-> NoMove]
    ELSE LET m == <<reply.row, reply.col>>
         IN  IF m \in Range(lgl) /\ ~IsBlunder(b, m, mine, opp)
             THEN [ret |-> TRUE, move |-> m]
             ELSE [ret |-> FALSE, move |-> NoMove]

\* Lines 368-371 of get_move.  safe is [] when board was never bound; the
\* pool "safe or legal" reads legal, which is unbound when current_player or
\* get_legal_moves() raised (UnboundLocalError); min() of an empty pool
\* raises ValueError.  Neither is caught: the except clause is behind.
get_move_fallback(hasLegal, hasBoard, lgl, b, mine, opp) ==
    LET safe == IF hasBoard THEN SafeOf(lgl, b, mine, opp) ELSE <<>>
    IN  IF safe # <<>>
        THEN [kind |-> "move", move |-> MinByCenter(safe), error |-> ""]
        ELSE IF ~hasLegal
        THEN [kind |-> "error", move |-> NoMove, error |-> "UnboundLocalError"]
        ELSE IF lgl = <<>>
        THEN [kind |-> "error", move |-> NoMove, error |-> "ValueError"]
        ELSE [kind |-> "move", move |-> MinByCenter(lgl), error |-> ""]

\* ------------------------------------------------------------ host positions

\* A line segment of five cells from (r, c) in steps of (dr, dc).
Seg(r, c, dr, dc) == [k \in 1..WinLen |-> <<r + (k - 1) * dr, c + (k - 1) * dc>>]

\* The segments on which the positions given to the analyzer have their
\* stones, one per direction: a row ending at the right edge, a column
\* ending at the bottom edge, a diagonal open at both ends, and the
\* anti-diagonal of exactly five cells.
AnalyzerSegments ==
    {Seg(2, 3, 0, 1), Seg(3, 0, 1, 0), Seg(1, 1, 1, 1), Seg(0, 4, 1, -1)}

\* The segment of the positions a turn is decided on.
TurnSegments == {Seg(2, 3, 0, 1)}

\* The ways to fill five cells with at most MaxStones stones.
Patterns ==
    {p \in [1..WinLen -> Stones] :
        Cardinality({k \in 1..WinLen : p[k] # "."}) <= MaxStones}

BoardOf(s, p) ==
    [r \in 1..N |-> [c \in 1..N |->
        IF \E k \in 1..WinLen : s[k] = <<r - 1, c - 1>>
        THEN p[CHOOSE k \in 1..WinLen : s[k] = <<r - 1, c - 1>>]
        ELSE "."]]

\* get_legal_moves(): the empty cells in row-major order: all of them, those
\* of the three leftmost columns, or none.
LegalOf(b, mask) ==
    SelectSeq(RowMajor,
              LAMBDA cell : /\ At(b, cell[1], cell[2]) = "."
                            /\ CASE mask = "all" -> TRUE
                                 [] mask = "left" -> cell[2] <= 2
                                 [] mask = "none" -> FALSE)

\* What the host hands out in one turn: which legal moves, and the shape of
\* the text format_board returns.
HostCases ==
    { <<"all", "standard">>, <<"left", "standard">>, <<"none", "standard">>,
      <<"left", "ragged">>, <<"none", "narrow">> }

\* The cells the analyzer's oracles are called on.
CallCells ==
    { <<2, 2>>, <<2, 3>>, <<2, 7>>, <<0, 0>>, <<5, 5>>, <<4, 0>>, <<7, 0>>, <<0, 4>> }

\* The replies of the model: llm.complete raising, a text without braces, a
\* text json.loads rejects, an object without "row"/"col", a value int()
\* rejects, and an object with integer row and col.
ReplyCoords == { <<-1, 0>>, <<8, 8>>, <<2, 2>>, <<2, 3>>, <<2, 7>>, <<4, 0>>, <<3, 3>> }

Replies ==
    {[kind |-> k, row |-> 0, col |-> 0] :
        k \in {"raise", "nojson", "badjson", "nokey", "nonint"}}
    \cup {[kind |-> "move", row |-> m[1], col |-> m[2]] : m \in ReplyCoords}

NoCall == [op |-> "none", cell |-> <<0, 0>>, stone |-> ".", n |-> 0]

NoResult == [kind |-> "none", move |-> NoMove, error |-> "", why |-> "", fault |-> ""]

NoSel == [called |-> FALSE, raised |-> FALSE, stage |-> 0, move |-> NoMove]

\* ------------------------------------------------------------------ analyzer

InitAnalyzer ==
    /\ \E s \in AnalyzerSegments, p \in Patterns : board = BoardOf(s, p)
    /\ me = "X"
    /\ legal = <<>>
    /\ fmt = "standard"
    /\ pc = "idle"
    /\ call = NoCall
    /\ ret = FALSE
    /\ threats = {}
    /\ parsed = EmptyBoard
    /\ llmCalls = 0
    /\ result = NoResult
    /\ sel = NoSel

\* One invocation of an analyzer routine on the current board with the
\* arguments of c; the board is the one the routine leaves.
Invoke(c) ==
    /\ IF c.op = "five_in_row_if_place"
       THEN \E w \in {five_in_row_if_place(board, c.cell[1], c.cell[2], c.stone)} :
               board' = w.board /\ ret' = w.ret /\ threats' = threats
       ELSE IF c.op = "move_gives_opp_immediate_win"
       THEN \E w \in {move_gives_opp_immediate_win(board, c.cell, c.stone, Other(c.stone))} :
               board' = w.board /\ ret' = w.ret /\ threats' = threats
       ELSE /\ threats' = find_all_threats(board, c.stone, 4)
            /\ board' = board /\ ret' = ret
    /\ call' = c
    /\ UNCHANGED <<me, legal, fmt, pc, parsed, llmCalls, result, sel>>

CallFiveInRow ==
    /\ call.op = "none"
    /\ \E cell \in CallCells, stone \in Players :
          Invoke([op |-> "five_in_row_if_place", cell |-> cell, stone |-> stone, n |-> 1])

CallMoveGivesOppWin ==
    /\ call.op = "none"
    /\ \E cell \in CallCells, stone \in Players :
          Invoke([op |-> "move_gives_opp_immediate_win", cell |-> cell, stone |-> stone, n |-> 1])

CallFindAllThreats ==
    /\ call.op = "none"
    /\ \E stone \in Players :
          Invoke([op |-> "find_all_threats", cell |-> <<0, 0>>, stone |-> stone, n |-> 1])

\* The same oracle call once more, on the board the first call left.
CallAgain ==
    /\ call.n = 1
    /\ call.op # "find_all_threats"
    /\ Invoke([call EXCEPT !.n = 2])

NextAnalyzer == CallFiveInRow \/ CallMoveGivesOppWin \/ CallFindAllThreats \/ CallAgain

SpecAnalyzer == InitAnalyzer /\ [][NextAnalyzer]_vars

\* ---------------------------------------------------------------- the turn

InitTurn ==
    /\ \E s \in TurnSegments, p \in Patterns, hc \in HostCases :
          /\ board = BoardOf(s, p)
          /\ legal = LegalOf(board, hc[1])
          /\ fmt = hc[2]
    /\ me \in Players
    /\ pc = "idle"
    /\ call = NoCall
    /\ ret = FALSE
    /\ threats = {}
    /\ parsed = EmptyBoard
    /\ llmCalls = 0
    /\ result = NoResult
    /\ sel = NoSel

\* get_move when a host call raises (lines 294-299): current_player,
\* get_legal_moves() or format_board().  The except clause prints, and the
\* fallback runs with what was bound before the raise: nothing, or legal.
GetMoveHostRaises ==
    /\ pc = "idle"
    /\ \E fault \in {"current_player", "get_legal_moves", "format_board"} :
          \E fb \in {get_move_fallback(fault = "format_board", FALSE, legal,
                                        EmptyBoard, me, Other(me))} :
             result' = [kind |-> fb.kind, move |-> fb.move, error |-> fb.error,
                        why |-> "host", fault |-> fault]
    /\ pc' = "done"
    /\ UNCHANGED <<board, me, legal, fmt, call, ret, threats, parsed, llmCalls, sel>>

\* get_move up to the await (lines 294-351): the host calls succeed, the
\* board text is parsed, the prompt is built (the analysis for the prompt
\* reads the board and leaves it as it was) and the model is called once.
GetMoveAwait ==
    /\ pc = "idle"
    /\ parsed' = parse_board_from_string(FormatBoard(board, fmt))
    /\ llmCalls' = llmCalls + 1
    /\ pc' = "await"
    /\ UNCHANGED <<board, me, legal, fmt, call, ret, threats, result, sel>>

\* Why a reply gave no move: it raised into the except clause, it held no
\* JSON object, its move was not in legal, or its move was a blunder.
WhyNot(reply, lgl) ==
    IF reply.kind = "nojson" THEN "nojson"
    ELSE IF reply.kind # "move" THEN "error"
    ELSE IF <<reply.row, reply.col>> \notin Range(lgl) THEN "illegal"
    ELSE "blunder"

\* get_move from the reply on (lines 351-371): the reply's move is returned,
\* or the emergency fallback decides.  No second request is made.
LLMCompletes ==
    /\ pc = "await"
    /\ \E fb \in {get_move_fallback(TRUE, TRUE, legal, parsed, me, Other(me))} :
          \E reply \in Replies :
             \E got \in {get_move_reply(reply, legal, parsed, me, Other(me))} :
                result' = IF got.ret
                          THEN [kind |-> "move", move |-> got.move, error |-> "",
                                why |-> "model", fault |-> ""]
                          ELSE [kind |-> fb.kind, move |-> fb.move, error |-> fb.error,
                                why |-> WhyNot(reply, legal), fault |-> ""]
    /\ pc' = "done"
    /\ UNCHANGED <<board, me, legal, fmt, call, ret, threats, parsed, llmCalls, sel>>

Next == GetMoveHostRaises \/ GetMoveAwait \/ LLMCompletes

Init == InitTurn

Spec == Init /\ [][Next]_vars

\* ------------------------------------------------------------- the selector

InitSelector == InitTurn /\ fmt = "standard"

\* One call of _get_strategic_move on the host's board and legal moves.
CallStrategicMove ==
    /\ pc = "idle"
    /\ \E s \in {get_strategic_move(board, me, Other(me), legal)} :
          IF s.raised
          THEN sel' = [called |-> TRUE, raised |-> TRUE, stage |-> s.stage, move |-> NoMove]
          ELSE \E m \in s.moves :
                  sel' = [called |-> TRUE, raised |-> FALSE, stage |-> s.stage, move |-> m]
    /\ pc' = "done"
    /\ UNCHANGED <<board, me, legal, fmt, call, ret, threats, parsed, llmCalls, result>>

NextSelector == CallStrategicMove

SpecSelector == InitSelector /\ [][NextSelector]_vars

\* =================================================================== claims

Opp == Other(me)

GetMoveDone == pc = "done" /\ result.kind # "none"

\* The model was asked, so every host call had succeeded.
ModelAsked == GetMoveDone /\ llmCalls >= 1

\* C1: whatever the model replies, with a non-empty legal-move list from the
\* host, get_move returns a coordinate and that coordinate is in the list.
C1Theorem ==
    (ModelAsked /\ legal # <<>>) =>
        (result.kind = "move" /\ result.move \in Range(legal))

\* The reply named a coordinate outside the list and a legal one came back.
C1Witness ==
    /\ ModelAsked
    /\ result.why = "illegal"
    /\ result.kind = "move"
    /\ result.move \in Range(legal)

\* C2: one-ply blunder veto.  The move get_move returns, from the model or
\* from the fallback, is a blunder on the parsed board only if every legal
\* move is one.
C2Theorem ==
    (ModelAsked /\ result.kind = "move" /\ IsBlunder(parsed, result.move, me, Opp)) =>
        \A m \in Range(legal) : IsBlunder(parsed, m, me, Opp)

\* The model proposed a legal blunder and a safe move came back instead.
C2Witness ==
    /\ ModelAsked
    /\ result.why = "blunder"
    /\ result.kind = "move"
    /\ ~IsBlunder(parsed, result.move, me, Opp)

\* C3: with an empty legal-move list the move decision returns (4, 4) and
\* raises nothing, in get_move and in the selector.
C3Claim ==
    /\ (ModelAsked /\ legal = <<>>) =>
          (result.kind = "move" /\ result.move = <<4, 4>>)
    /\ (sel.called /\ legal = <<>>) =>
          (~sel.raised /\ sel.move = <<4, 4>>)

\* C4: a failing host call is never propagated: get_move still returns a
\* coordinate.  Stated for a host whose legal-move list is not empty.
C4Claim ==
    (GetMoveDone /\ result.why = "host" /\ legal # <<>>) => result.kind = "move"

\* C5: when the first reply gives no usable move (it raised, held no JSON
\* object, or named a coordinate outside the list), one repair request is
\* sent before the fallback: the fallback is reached after two model calls.
C5Claim ==
    (GetMoveDone /\ result.why \in {"error", "nojson", "illegal"}) => llmCalls = 2

\* C6: when the reply is missing, malformed, illegal or a blunder, the move
\* get_move returns is the one the selector's priority chain chooses.
C6Claim ==
    (ModelAsked /\ result.why # "model" /\ legal # <<>>) =>
        /\ result.kind = "move"
        /\ result.move \in get_strategic_move(parsed, me, Opp, legal).moves

\* C7: find_threats(board, stone, 4) is exactly the set of empty cells at
\* which would_win(board, r, c, stone) is true.
C7Theorem ==
    (call.op = "find_all_threats") => (threats = ImmediateWins(board, call.stone))

\* The scan found a cell, and it is a cell where the stone wins.
C7Witness ==
    /\ call.op = "find_all_threats"
    /\ threats # {}
    /\ threats = ImmediateWins(board, call.stone)

\* C8: an oracle call leaves the board as it found it, on every exit path,
\* and the same call made again returns what it returned before.
C8Theorem ==
    [][(call' # call /\ call'.op \in {"five_in_row_if_place", "move_gives_opp_immediate_win"}) =>
          /\ board' = board
          /\ (call'.n = 2 => ret' = ret)]_vars

\* The blunder oracle was called twice on an empty cell and returned True
\* through its early return.
C8Witness ==
    /\ call.op = "move_gives_opp_immediate_win"
    /\ call.n = 2
    /\ At(board, call.cell[1], call.cell[2]) = "."
    /\ ret

\* C10: on an empty cell m, creates_opponent_win is true exactly when some
\* empty cell other than m wins for the opponent on the unmodified board; so
\* no winning cell means no blunder, and two or more make every move one.
C10Theorem ==
    (call.op = "move_gives_opp_immediate_win" /\ At(board, call.cell[1], call.cell[2]) = ".") =>
        LET W == ImmediateWins(board, Other(call.stone))
        IN  /\ ret <=> (W \ {call.cell} # {})
            /\ (W = {}) => ~ret
            /\ (Cardinality(W) >= 2) => ret

\* The move tested is the opponent's only winning cell: not a blunder.
C10Witness ==
    /\ call.op = "move_gives_opp_immediate_win"
    /\ At(board, call.cell[1], call.cell[2]) = "."
    /\ ImmediateWins(board, Other(call.stone)) = {call.cell}
    /\ ~ret

\* The legal candidates of stage k on the position the selector was given.
LegalCands(k) == StageCandidates(k, board, me, Opp, legal) \cap Range(legal)

\* The first stage with a legal candidate: the stage the selector reaches
\* with a non-empty candidate list; 5 when there is none.
FirstStage ==
    IF LegalCands(1) # {} THEN 1
    ELSE IF LegalCands(2) # {} THEN 2
    ELSE IF LegalCands(3) # {} THEN 3
    ELSE IF LegalCands(4) # {} THEN 4
    ELSE 5

AllBlunder(S) == \A m \in S : IsBlunder(board, m, me, Opp)

\* C9 as stated: a blunder-filtered stage whose legal candidates are all
\* blunders produces no move, and the selector goes on to a later stage.
C9Claim ==
    sel.called =>
        \A k \in {FirstStage} :
            (k \in 2..4 /\ AllBlunder(LegalCands(k))) => (~sel.raised /\ sel.stage > k)

\* C9 as the code has it: such a stage keeps its blundering candidates and
\* returns the best-ranked of them; the selector does not fall through.
C9Theorem ==
    sel.called =>
        \A k \in {FirstStage} :
            (k \in 2..4 /\ AllBlunder(LegalCands(k))) =>
                \E cands \in {LegalCands(k)} :
                    /\ ~sel.raised
                    /\ sel.stage = k
                    /\ sel.move \in cands
                    /\ \A x \in cands :
                          ~KeyLess(RankKey(board, x, me), RankKey(board, sel.move, me))

\* A blunder-filtered stage had only blundering candidates and returned.
C9Witness ==
    /\ sel.called
    /\ sel.stage \in 2..4
    /\ sel.stage = FirstStage
    /\ AllBlunder(LegalCands(sel.stage))

====
